---- MODULE Spec2Model ----
(***************************************************************************)
(* otpflow-bot: the multi-instance WhatsApp gateway of src/server.js.      *)
(*                                                                         *)
(* State: the whatsapp_instances table (db), the in-memory registry        *)
(* `sessions` with the session objects it points to (objs: the closures of *)
(* startSession keep a reference to their own session object and socket    *)
(* after the registry has dropped or replaced it), the reconnect timers    *)
(* armed by setTimeout, the two round-robin cursors, the rotation requests *)
(* in flight (one position per await), the restore loop of main(), the     *)
(* wall clock and the calendar day.                                        *)
(***************************************************************************)
EXTENDS Integers, Sequences, FiniteSets, TLC

VARIABLES
    db,                      \* instance_id -> row of whatsapp_instances
    objs,                    \* slot -> session object (with its socket)
    sessions,                \* instance_id -> slot of the registered session, 0 = absent
    timers,                  \* instance_id -> pending setTimeout(() => startSession(id), 5000)
    personalRoundRobinIndex, \* userId -> cursor, 0 - 1 when the Map has no entry
    sharedRoundRobinIndex,   \* cursor of the shared pool
    reqs,                    \* request id -> rotation request in flight
    restoreQ,                \* rows main() still has to restore
    restoreWait,             \* slot whose startSession main() awaits, Sleeping, 0 = none
    ret,                     \* what the last completed call returned
    now,                     \* Date.now()
    today                    \* new Date().toISOString().split('T')[0], as a day number

vars == <<db, objs, sessions, timers, personalRoundRobinIndex, sharedRoundRobinIndex,
          reqs, restoreQ, restoreWait, ret, now, today>>

(***************************************************************************)
(* Bounds of the model.                                                    *)
(***************************************************************************)
MaxObj == 2        \* session objects alive at the same time in Spec
MaxTimers == 1     \* pending reconnect timers per instance
MaxTicks == 1      \* clock ticks of TickMs the wall clock may advance
MaxDay == 2        \* last calendar day (days are numbered from 1)
MaxSent == 3       \* cap of messages_sent_today
DailyLimit == 2    \* daily_message_limit of every row (50 by default in the schema)
MaxBytes == 3      \* longest byte sequence of a credential or key record
MaxDelta == 2      \* (category, id) pairs named in one call of keys.set

(***************************************************************************)
(* Program constants.                                                      *)
(***************************************************************************)
StaleMs == 45000       \* age < 45000
NullDate == 0          \* last_reset_date DATE DEFAULT NULL
loggedOut == 401       \* DisconnectReason.loggedOut of the protocol library
DefaultCode == 500     \* lastDisconnect?.error?.output?.statusCode || 500
TickMs == StaleMs       \* granularity of the modelled clock

BanCodes == {401, 403}                       \* [401, 403].includes(code)
CloseCodes == {401, 403, 428, DefaultCode}   \* codes the adapter reports on close

Slots == DOMAIN objs
Reqs == DOMAIN reqs
Users == {1, 2}
NoQr == "null"
QrPayloads == {"qr1"}
NoCursor == 0 - 1

\* the static columns of the rows: user_id, is_company_shared, priority
user_id(i) == IF i = "c" THEN 2 ELSE 1
is_company_shared(i) == TRUE
priority(i) == IF i = "c" THEN 2 ELSE 1

Ids == DOMAIN db

(***************************************************************************)
(* The auth state, useDBAuthState of lines 82-133.  A Buffer is a record   *)
(* of its bytes; the columns auth_creds and auth_keys hold NULL or a JSON   *)
(* text.  A credential record is reduced to one binary field and one       *)
(* scalar field.                                                           *)
(***************************************************************************)
ByteVals == {0, 255}
Bytes == UNION {[1..n -> ByteVals] : n \in 0..MaxBytes}
Buffer(b) == [type |-> "Buffer", bytes |-> b]
Null == [type |-> "null"]

\* Buffer.toString('base64'): the 6-bit digits, Pad for '='
Pad == 64
RECURSIVE Base64(_)
Base64(b) ==
    IF Len(b) = 0 THEN <<>>
    ELSE IF Len(b) = 1 THEN <<b[1] \div 4, (b[1] % 4) * 16, Pad, Pad>>
    ELSE IF Len(b) = 2
         THEN <<b[1] \div 4, (b[1] % 4) * 16 + b[2] \div 16, (b[2] % 16) * 4, Pad>>
    ELSE <<b[1] \div 4, (b[1] % 4) * 16 + b[2] \div 16,
           (b[2] % 16) * 4 + b[3] \div 64, b[3] % 64>> \o Base64(SubSeq(b, 4, Len(b)))

\* Buffer.from(text, 'base64')
RECURSIVE FromBase64(_)
FromBase64(t) ==
    IF Len(t) < 4 THEN <<>>
    ELSE LET first == t[1] * 4 + t[2] \div 16
             second == (t[2] % 16) * 16 + t[3] \div 4
             third == (t[3] % 4) * 64 + t[4]
         IN IF t[3] = Pad THEN <<first>>
            ELSE IF t[4] = Pad THEN <<first, second>>
            ELSE <<first, second, third>> \o FromBase64(SubSeq(t, 5, Len(t)))

\* BufferJSON.replacer: a Buffer becomes { type: 'Buffer', data: <base64> }
replacer(v) == IF v.type = "Buffer" THEN [type |-> "Buffer", data |-> Base64(v.bytes)] ELSE v

\* as reviver, for a JSON.parse without the reviver argument
reviverMissing(v) == v

\* BufferJSON.reviver: const val = value.data || value.value;
\* typeof val === 'string' ? Buffer.from(val, 'base64') : Buffer.from(val || [])
reviver(v) ==
    IF v.type = "Buffer"
    THEN Buffer(IF v.data # <<>> THEN FromBase64(v.data) ELSE <<>>)
    ELSE v

NullBlob == [kind |-> "null"]          \* the column is NULL
Garbage == [kind |-> "garbage"]        \* a text JSON.parse throws on
Json(doc) == [kind |-> "json", doc |-> doc]

\* JSON.stringify(creds, BufferJSON.replacer)
stringifyCreds(c) == Json([noiseKey |-> replacer(c.noiseKey), registered |-> c.registered])
\* JSON.parse(raw, BufferJSON.reviver)
parseCreds(doc) == [noiseKey |-> reviver(doc.noiseKey), registered |-> doc.registered]

\* JSON.stringify(storedKeys, BufferJSON.replacer)
stringifyKeys(m) == Json([n \in DOMAIN m |-> replacer(m[n])])
parseKeys(doc) == [n \in DOMAIN doc |-> reviver(doc[n])]

\* initAuthCreds() of the protocol library: a record with freshly generated key
\* material, not registered
initAuthCreds == [noiseKey |-> Buffer(<<255, 0, 255>>), registered |-> FALSE]
\* a record without key material, and the memory of a closure that has loaded nothing
EmptyCreds == [noiseKey |-> Buffer(<<>>), registered |-> FALSE]
EmptyKeys == [n \in {} |-> Null]

\* lines 86-94: the credential of the row, a fresh one when the column is NULL or
\* does not parse
loadCreds(blob) ==
    LET creds == IF blob = NullBlob THEN Null
                 ELSE IF blob = Garbage THEN Null
                 ELSE parseCreds(blob.doc)
    IN IF creds = Null THEN initAuthCreds ELSE creds

\* lines 97-104: the key mapping of the row, {} when the column is NULL or does not parse
loadKeys(blob) ==
    IF blob = NullBlob THEN EmptyKeys
    ELSE IF blob = Garbage THEN EmptyKeys
    ELSE parseKeys(blob.doc)

\* categories and ids of the key records the protocol library stores; one category
\* is a prefix of the other, and no id starts with the rest of a category
Categories == {"sender-key", "sender-key-memory"}
KeyIds == {"1", "2"}
KeyVals == {Buffer(<<>>), Buffer(<<255, 0>>)}
\* const k = `${type}-${id}`
KeyName(cat, id) == cat \o "-" \o id
\* the arguments of keys.set: some (category, id) pairs, each with a record or nothing
Deltas ==
    UNION {[P -> KeyVals \cup {Null}] :
              P \in {Q \in SUBSET (Categories \X KeyIds) : Cardinality(Q) \in 1..MaxDelta}}

\* keys.get(type, ids), lines 107-114
keysGet(m, type, ids) ==
    [id \in {j \in ids : KeyName(type, j) \in DOMAIN m /\ m[KeyName(type, j)] # Null} |->
        m[KeyName(type, id)]]

\* as keysSet, never deleting an entry
keysSetNoDelete(m, data) ==
    LET upserts == {p \in DOMAIN data : data[p] # Null}
        written == {KeyName(p[1], p[2]) : p \in upserts}
    IN [n \in DOMAIN m \cup written |->
           IF n \in written
           THEN data[CHOOSE p \in upserts : KeyName(p[1], p[2]) = n]
           ELSE m[n]]

\* the loop of keys.set, lines 116-122: if (data[cat][id]) storedKeys[k] = data[cat][id];
\* else delete storedKeys[k]
keysSet(m, data) ==
    LET upserts == {p \in DOMAIN data : data[p] # Null}
        written == {KeyName(p[1], p[2]) : p \in upserts}
        named == {KeyName(p[1], p[2]) : p \in DOMAIN data}
    IN [n \in (DOMAIN m \ named) \cup written |->
           IF n \in written
           THEN data[CHOOSE p \in upserts : KeyName(p[1], p[2]) = n]
           ELSE m[n]]

FreeObj ==
    [id |-> "-", socket |-> "null", qr |-> NoQr, status |-> "free",
     createdAt |-> 0, starting |-> FALSE, creds |-> EmptyCreds, storedKeys |-> EmptyKeys]

\* const session = { socket: null, qr: null, status: 'connecting', phoneNumber: null,
\* createdAt: Date.now() }; starting: the call is at its awaits of lines 221-222.
\* phoneNumber, like the columns phone_number and last_ping, is written and never read
\* by the core and is not modelled.  creds, storedKeys: the variables of the same
\* names of the useDBAuthState call of line 221, which the socket's auth state closes
\* over; nothing is loaded while the call is at its awaits.
NewSession(i, t) ==
    [id |-> i, socket |-> "null", qr |-> NoQr, status |-> "connecting",
     createdAt |-> t, starting |-> TRUE, creds |-> EmptyCreds, storedKeys |-> EmptyKeys]

\* a row as createInstanceRecord inserts it (the schema's defaults)
NewRow ==
    [status |-> "disconnected", is_banned |-> FALSE, messages_sent_today |-> 0,
     last_reset_date |-> NullDate, auth_creds |-> NullBlob, auth_keys |-> NullBlob]

\* the locals of a rotation call; tried: the positions of the list at which this call
\* has invoked sendMsg so far, in order
NoReq ==
    [pc |-> "idle", scope |-> "-", user |-> 0, instances |-> <<>>, attempts |-> 0,
     startIndex |-> 0, cur |-> 0, sobj |-> 0, tried |-> <<>>]

\* {op, id: the instance concerned, val: the session returned (startSession) or the
\* reported messages_sent_today (sends), ok: success, why: the error of the result}.
\* For the step of startSession that registers a new session and has not returned
\* yet, val is 0 and why is the line it logged.
\* why = Rejected: the call did not return, its promise was rejected with the error
\* of an awaited call.
\* rotated: the flag of the same name in the result of sendWithRotation (absent, hence
\* falsy, in every other result).
NoRet == [op |-> "-", id |-> "-", val |-> 0, ok |-> FALSE, why |-> "-", rotated |-> FALSE]
Ret(op, i, val, ok, why) ==
    [op |-> op, id |-> i, val |-> val, ok |-> ok, why |-> why, rotated |-> FALSE]

\* a socket that was opened and neither closed by the network nor ended by the registry
Live(o) == o.socket \in {"handshake", "online"}

(***************************************************************************)
(* DB helpers (the UPDATE statements).                                     *)
(***************************************************************************)
\* as updateInstanceStatus, but a row that connects again is taken off the ban list
updateInstanceStatusUnban(d, i, status) ==
    [d EXCEPT ![i].status = status,
              ![i].is_banned = IF status = "connected" THEN FALSE ELSE @]

\* UPDATE ... SET status = ?, last_ping = NOW() [, phone_number = ?]
updateInstanceStatus(d, i, status) ==
    [d EXCEPT ![i].status = status]

\* UPDATE ... SET is_banned = 1, status = 'banned'
markBanned(d, i) ==
    [d EXCEPT ![i].is_banned = TRUE, ![i].status = "banned"]

\* as incrementMessageCount, written as a read followed by a write of the value read
\* plus one, the read being the one of the candidate list (always 0)
incrementMessageCountStale(d, i, t) ==
    [d EXCEPT ![i].messages_sent_today = 1, ![i].last_reset_date = t]

\* one UPDATE: CASE WHEN last_reset_date IS NULL OR last_reset_date < today THEN 1
\*             ELSE messages_sent_today + 1 END, last_reset_date = today
incrementMessageCount(d, i, t) ==
    [d EXCEPT ![i].messages_sent_today =
                  IF d[i].last_reset_date = NullDate \/ d[i].last_reset_date < t
                  THEN 1 ELSE @ + 1,
              ![i].last_reset_date = t]

(***************************************************************************)
(* Session objects.  A slot is reused once nothing can reach its object    *)
(* any more: it is not registered, no continuation of startSession and no  *)
(* sendMsg in flight holds it, and its socket is not live.  An object that *)
(* the registry has dropped but whose closures still run (a live socket, a *)
(* pending continuation, a sendMsg in flight) is retired: the code only    *)
(* writes its status, qr and createdAt from then on and never reads them,  *)
(* so they are blanked; its socket and its continuation are kept.          *)
(***************************************************************************)
Registered(k, sess) == \E i \in DOMAIN sess : sess[i] = k

Held(k, rq, rw) == (\E r \in DOMAIN rq : rq[r].sobj = k) \/ rw = k

Retire(o) == [o EXCEPT !.status = "retired", !.qr = NoQr, !.createdAt = 0]

Gc(o, sess, rq, rw) ==
    [k \in Slots |->
        IF Registered(k, sess) THEN o[k]
        ELSE IF Live(o[k]) \/ o[k].starting \/ Held(k, rq, rw) THEN Retire(o[k])
        ELSE FreeObj]

FreeSlots == {k \in Slots : objs[k] = FreeObj}
FirstFree == CHOOSE k \in FreeSlots : \A j \in FreeSlots : k <= j

\* as EndSocket, with the call of end() forgotten
EndSocketForgotten(o) == o

\* socket?.end(): a live socket is terminated, anything else is left as it is
EndSocket(o) == [o EXCEPT !.socket = IF Live(o) THEN "ended" ELSE @]

(***************************************************************************)
(* startSession(instanceId), lines 203-218: the synchronous prefix.        *)
(***************************************************************************)
\* as ReturnsExisting, without the status qr_ready (the test of sessionManager.js)
ReturnsExistingNoQr(i) ==
    /\ sessions[i] # 0
    /\ LET existing == objs[sessions[i]] IN
        \/ existing.status = "connected"
        \/ /\ existing.status = "connecting"
           /\ now - existing.createdAt < StaleMs

\* the session is returned as it is: connected, or mid-handshake and younger than 45 s
ReturnsExisting(i) ==
    /\ sessions[i] # 0
    /\ LET existing == objs[sessions[i]] IN
        \/ existing.status = "connected"
        \/ /\ existing.status \in {"connecting", "qr_ready"}
           /\ now - existing.createdAt < StaleMs

\* the stuck session is ended and deleted before the new one is registered
ForcesRestart(i) ==
    /\ sessions[i] # 0
    /\ objs[sessions[i]].status \in {"connecting", "qr_ready"}
    /\ ~(now - objs[sessions[i]].createdAt < StaleMs)

\* objs after the prefix of a call that registers a new session in slot k
StartObjs(i, k) ==
    LET ended == IF ForcesRestart(i)
                 THEN [objs EXCEPT ![sessions[i]] = EndSocket(@)]
                 ELSE objs
    IN [ended EXCEPT ![k] = NewSession(i, now)]

\* restoreWait while main() sleeps the 2 s that follow each restored session
Sleeping == 0 - 1

\* the prefix of startSession(i); rw: the call is main()'s, which awaits it and then sleeps
StartSessionPrefix(i, tm, rw) ==
    IF ReturnsExisting(i)
    THEN /\ ret' = Ret("startSession", i, sessions[i], TRUE, "-")
         /\ timers' = tm
         /\ restoreWait' = IF rw THEN Sleeping ELSE restoreWait
         /\ UNCHANGED <<objs, sessions>>
    ELSE /\ FreeSlots # {}
         /\ LET k == FirstFree IN
             /\ sessions' = [sessions EXCEPT ![i] = k]
             /\ restoreWait' = IF rw THEN k ELSE restoreWait
             /\ objs' = Gc(StartObjs(i, k), sessions', reqs, restoreWait')
         /\ timers' = tm
         /\ ret' = Ret("startSession", i, 0, FALSE,
                       IF ForcesRestart(i) THEN "stuck, restarting" ELSE "starting")

\* app.listen follows the restore loop in main(): no route is served before it ends
Listening == restoreQ = {} /\ restoreWait = 0

\* a caller (a route of the HTTP layer) invokes startSession(i)
StartSession(i) ==
    /\ Listening
    /\ StartSessionPrefix(i, timers, FALSE)
    /\ UNCHANGED <<db, personalRoundRobinIndex, sharedRoundRobinIndex, reqs, restoreQ,
                   now, today>>

\* setTimeout(() => startSession(instanceId), 5000) fires
TimerFire(i) ==
    /\ timers[i] > 0
    /\ StartSessionPrefix(i, [timers EXCEPT ![i] = @ - 1], FALSE)
    /\ UNCHANGED <<db, personalRoundRobinIndex, sharedRoundRobinIndex, reqs, restoreQ,
                   now, today>>

(***************************************************************************)
(* startSession, lines 220-293: after the awaits of useDBAuthState and     *)
(* fetchLatestBaileysVersion.                                              *)
(***************************************************************************)
\* useDBAuthState has loaded the auth state and makeWASocket succeeded:
\* session.socket = socket, handlers registered, return session
StartSessionOpen(k) ==
    /\ objs[k].starting
    /\ restoreWait' = IF restoreWait = k THEN Sleeping ELSE restoreWait
    /\ objs' = Gc([objs EXCEPT ![k].socket = "handshake", ![k].starting = FALSE,
                               ![k].creds = loadCreds(db[objs[k].id].auth_creds),
                               ![k].storedKeys = loadKeys(db[objs[k].id].auth_keys)],
                  sessions, reqs, restoreWait')
    /\ ret' = Ret("startSession", objs[k].id, k, TRUE, "-")
    /\ UNCHANGED <<db, sessions, timers, personalRoundRobinIndex, sharedRoundRobinIndex,
                   reqs, restoreQ, now, today>>

\* as StartSessionFail, with a reconnect scheduled as the event handler's catch does
StartSessionFailRetries(k, dbOk) ==
    /\ objs[k].starting
    /\ timers[objs[k].id] < MaxTimers
    /\ restoreWait' = IF restoreWait = k THEN Sleeping ELSE restoreWait
    /\ objs' = Gc([objs EXCEPT ![k].status = "error", ![k].starting = FALSE],
                  sessions, reqs, restoreWait')
    /\ db' = IF dbOk THEN updateInstanceStatus(db, objs[k].id, "disconnected") ELSE db
    /\ timers' = [timers EXCEPT ![objs[k].id] = @ + 1]
    /\ ret' = Ret("startSession", objs[k].id, k, TRUE, "-")
    /\ UNCHANGED <<sessions, personalRoundRobinIndex, sharedRoundRobinIndex,
                   reqs, restoreQ, now, today>>

\* the catch of line 287: status 'error', persist 'disconnected' (best effort), return session
StartSessionFail(k, dbOk) ==
    /\ objs[k].starting
    /\ restoreWait' = IF restoreWait = k THEN Sleeping ELSE restoreWait
    /\ objs' = Gc([objs EXCEPT ![k].status = "error", ![k].starting = FALSE],
                  sessions, reqs, restoreWait')
    /\ db' = IF dbOk THEN updateInstanceStatus(db, objs[k].id, "disconnected") ELSE db
    /\ ret' = Ret("startSession", objs[k].id, k, TRUE, "-")
    /\ UNCHANGED <<sessions, timers, personalRoundRobinIndex, sharedRoundRobinIndex,
                   reqs, restoreQ, now, today>>

(***************************************************************************)
(* The handlers registered on the socket of the session object in slot k.  *)
(***************************************************************************)
\* socket.ev.on('creds.update', saveCreds), lines 129-131: the credential as it is
\* in memory is written to the row
CredsUpdate(k) ==
    /\ Live(objs[k])
    /\ db[objs[k].id].auth_creds # stringifyCreds(objs[k].creds)
    /\ db' = [db EXCEPT ![objs[k].id].auth_creds = stringifyCreds(objs[k].creds)]
    /\ ret' = NoRet
    /\ UNCHANGED <<objs, sessions, timers, personalRoundRobinIndex, sharedRoundRobinIndex,
                   reqs, restoreQ, restoreWait, now, today>>

\* the credentials the protocol library may hold after a handshake step
CredsSet == {[noiseKey |-> Buffer(b), registered |-> TRUE] : b \in Bytes}

\* the socket assigns new fields to the credential it was given and emits
\* creds.update: saveCreds writes the record
CredsChanged(k, c) ==
    /\ Live(objs[k])
    /\ objs[k].creds # c
    /\ objs' = [objs EXCEPT ![k].creds = c]
    /\ db' = [db EXCEPT ![objs[k].id].auth_creds = stringifyCreds(c)]
    /\ ret' = NoRet
    /\ UNCHANGED <<sessions, timers, personalRoundRobinIndex, sharedRoundRobinIndex,
                   reqs, restoreQ, restoreWait, now, today>>

\* the socket calls keys.set(data), lines 115-124: the loop over data, then the UPDATE
\* of auth_keys with the whole mapping
KeysSet(k, data) ==
    /\ Live(objs[k])
    /\ objs' = [objs EXCEPT ![k].storedKeys = keysSet(@, data)]
    /\ db' = [db EXCEPT ![objs[k].id].auth_keys = stringifyKeys(objs'[k].storedKeys)]
    /\ ret' = NoRet
    /\ UNCHANGED <<sessions, timers, personalRoundRobinIndex, sharedRoundRobinIndex,
                   reqs, restoreQ, restoreWait, now, today>>

\* connection.update with a qr
OnQr(k, q) ==
    /\ objs[k].socket = "handshake"
    /\ objs' = Gc([objs EXCEPT ![k].qr = q, ![k].status = "qr_ready"],
                  sessions, reqs, restoreWait)
    /\ ret' = NoRet
    /\ UNCHANGED <<db, sessions, timers, personalRoundRobinIndex, sharedRoundRobinIndex,
                   reqs, restoreQ, restoreWait, now, today>>

\* the catch of line 279: status 'reconnecting' and a reconnect timer
CatchEvent(o, k) == [o EXCEPT ![k].status = "reconnecting"]

\* as OnOpen, with the QR of the session left in place
OnOpenKeepsQr(k, dbOk) ==
    LET i == objs[k].id
        opened == [objs EXCEPT ![k].socket = "online", ![k].status = "connected"]
    IN
    /\ objs[k].socket = "handshake"
    /\ IF dbOk
       THEN /\ objs' = Gc(opened, sessions, reqs, restoreWait)
            /\ db' = updateInstanceStatus(db, i, "connected")
            /\ timers' = timers
       ELSE /\ timers[i] < MaxTimers
            /\ objs' = Gc(CatchEvent(opened, k), sessions, reqs, restoreWait)
            /\ db' = db
            /\ timers' = [timers EXCEPT ![i] = @ + 1]
    /\ ret' = NoRet
    /\ UNCHANGED <<sessions, personalRoundRobinIndex, sharedRoundRobinIndex,
                   reqs, restoreQ, restoreWait, now, today>>

\* connection.update with connection === 'open'
OnOpen(k, dbOk) ==
    LET i == objs[k].id
        opened == [objs EXCEPT ![k].socket = "online", ![k].status = "connected",
                               ![k].qr = NoQr]
    IN
    /\ objs[k].socket = "handshake"
    /\ IF dbOk
       THEN /\ objs' = Gc(opened, sessions, reqs, restoreWait)
            /\ db' = updateInstanceStatus(db, i, "connected")
            /\ timers' = timers
       ELSE /\ timers[i] < MaxTimers
            /\ objs' = Gc(CatchEvent(opened, k), sessions, reqs, restoreWait)
            /\ db' = db
            /\ timers' = [timers EXCEPT ![i] = @ + 1]
    /\ ret' = NoRet
    /\ UNCHANGED <<sessions, personalRoundRobinIndex, sharedRoundRobinIndex,
                   reqs, restoreQ, restoreWait, now, today>>

\* connection.update with connection === 'close' and the status code `code`
OnClose(k, code, dbOk) ==
    LET i == objs[k].id
        closed == [objs EXCEPT ![k].socket = "closed"]
    IN
    /\ Live(objs[k])
    /\ IF ~dbOk
       THEN \* markBanned / updateInstanceStatus threw: the catch of line 279
            /\ timers[i] < MaxTimers
            /\ objs' = Gc(CatchEvent(closed, k), sessions, reqs, restoreWait)
            /\ UNCHANGED <<db, sessions>>
            /\ timers' = [timers EXCEPT ![i] = @ + 1]
       ELSE IF code \in BanCodes
       THEN /\ db' = markBanned(db, i)
            /\ sessions' = [sessions EXCEPT ![i] = 0]
            /\ objs' = Gc([closed EXCEPT ![k].status = "banned"], sessions', reqs, restoreWait)
            /\ timers' = timers
       ELSE IF code = loggedOut
       THEN /\ db' = updateInstanceStatus(db, i, "disconnected")
            /\ sessions' = [sessions EXCEPT ![i] = 0]
            /\ objs' = Gc([closed EXCEPT ![k].status = "disconnected"], sessions', reqs,
                          restoreWait)
            /\ timers' = timers
       ELSE /\ timers[i] < MaxTimers
            /\ db' = updateInstanceStatus(db, i, "reconnecting")
            /\ objs' = Gc([closed EXCEPT ![k].status = "reconnecting"], sessions, reqs,
                          restoreWait)
            /\ timers' = [timers EXCEPT ![i] = @ + 1]
            /\ sessions' = sessions
    /\ ret' = NoRet
    /\ UNCHANGED <<personalRoundRobinIndex, sharedRoundRobinIndex, reqs, restoreQ,
                   restoreWait, now, today>>

(***************************************************************************)
(* disconnectSession(instanceId), lines 314-322.                           *)
(***************************************************************************)
\* as DisconnectSession, returning at once when the session has no socket yet
DisconnectSessionNeedsSocket(i) ==
    /\ Listening
    /\ IF sessions[i] # 0 /\ objs[sessions[i]].socket # "null"
       THEN /\ sessions' = [sessions EXCEPT ![i] = 0]
            /\ objs' = Gc([objs EXCEPT ![sessions[i]] = EndSocket(@)], sessions', reqs,
                          restoreWait)
            /\ db' = updateInstanceStatus(db, i, "disconnected")
       ELSE UNCHANGED <<sessions, objs, db>>
    /\ ret' = Ret("disconnectSession", i, 0, TRUE, "-")
    /\ UNCHANGED <<timers, personalRoundRobinIndex, sharedRoundRobinIndex, reqs, restoreQ,
                   restoreWait, now, today>>

DisconnectSession(i) ==
    /\ Listening
    /\ sessions' = [sessions EXCEPT ![i] = 0]
    /\ objs' = Gc(IF sessions[i] # 0 THEN [objs EXCEPT ![sessions[i]] = EndSocket(@)] ELSE objs,
                  sessions', reqs, restoreWait)
    /\ db' = updateInstanceStatus(db, i, "disconnected")
    /\ ret' = Ret("disconnectSession", i, 0, TRUE, "-")
    /\ UNCHANGED <<timers, personalRoundRobinIndex, sharedRoundRobinIndex, reqs, restoreQ,
                   restoreWait, now, today>>

(***************************************************************************)
(* Time.                                                                   *)
(***************************************************************************)
Tick ==
    /\ now < MaxTicks * TickMs
    /\ now' = now + TickMs
    /\ ret' = NoRet
    /\ UNCHANGED <<db, objs, sessions, timers, personalRoundRobinIndex,
                   sharedRoundRobinIndex, reqs, restoreQ, restoreWait, today>>

NextDay ==
    /\ today < MaxDay
    /\ today' = today + 1
    /\ ret' = NoRet
    /\ UNCHANGED <<db, objs, sessions, timers, personalRoundRobinIndex,
                   sharedRoundRobinIndex, reqs, restoreQ, restoreWait, now>>


(***************************************************************************)
(* Candidate lists, lines 161-184.                                         *)
(***************************************************************************)
\* r.last_reset_date >= today.  The pool of getPool sets no dateStrings, so the driver
\* hands a DATE column back as a Date object, while today is the string
\* toISOString().split('T')[0]: the relational comparison converts both sides to
\* numbers, the string 'YYYY-MM-DD' to NaN, and every comparison with NaN is false.
DateGeString(d, t) == FALSE

\* const cnt = (r.last_reset_date && r.last_reset_date >= today) ? r.messages_sent_today : 0
EffectiveCount(row, t) ==
    IF row.last_reset_date # NullDate /\ DateGeString(row.last_reset_date, t)
    THEN row.messages_sent_today ELSE 0

\* the rows S of a SELECT as a list, in any order
Arrangements(S) ==
    {q \in [1..Cardinality(S) -> S] :
        \A x, y \in 1..Cardinality(S) : x # y => q[x] # q[y]}

\* rows.map(...).filter(r => r.messages_sent_today < r.daily_message_limit)
MapFilter(q, t) ==
    LET mapped == [x \in 1..Len(q) |->
                      [instance_id |-> q[x],
                       messages_sent_today |-> EffectiveCount(db[q[x]], t)]]
    IN SelectSeq(mapped, LAMBDA r : r.messages_sent_today < DailyLimit)

\* WHERE user_id = ? AND status = 'connected' AND is_banned = 0
PersonalRows(u) ==
    {i \in Ids : user_id(i) = u /\ db[i].status = "connected" /\ ~db[i].is_banned}

\* ORDER BY priority ASC, messages_sent_today ASC
PersonalBefore(i, j) ==
    \/ priority(i) < priority(j)
    \/ priority(i) = priority(j) /\ db[i].messages_sent_today < db[j].messages_sent_today

\* every list getAvailableInstances(userId) may return in this state: the rows in
\* ascending order, rows the ORDER BY does not tell apart in any order (SQL leaves
\* their order open)
getAvailableInstances(u) ==
    {MapFilter(q, today) :
        q \in {p \in Arrangements(PersonalRows(u)) :
                  \A x, y \in DOMAIN p : x < y => ~PersonalBefore(p[y], p[x])}}

\* as SharedRows, without AND is_banned = 0
SharedRowsWithBanned ==
    {i \in Ids : is_company_shared(i) /\ db[i].status = "connected"}

\* WHERE is_company_shared = 1 AND status = 'connected' AND is_banned = 0
SharedRows ==
    {i \in Ids : is_company_shared(i) /\ db[i].status = "connected" /\ ~db[i].is_banned}

\* ORDER BY messages_sent_today ASC
SharedBefore(i, j) == db[i].messages_sent_today < db[j].messages_sent_today

\* every list getAvailableSharedInstances() may return in this state
getAvailableSharedInstances ==
    {MapFilter(q, today) :
        q \in {p \in Arrangements(SharedRows) :
                  \A x, y \in DOMAIN p : x < y => ~SharedBefore(p[y], p[x])}}

(***************************************************************************)
(* Rotation engine, lines 345-421, and sendMsg, lines 295-310.  A request  *)
(* r is at "queried" (the SELECT has answered), at "sending" (inside        *)
(* sendMsg, awaiting socket.sendMessage) or at "incr" (awaiting             *)
(* incrementMessageCount).                                                  *)
(***************************************************************************)
OpName(scope) == IF scope = "shared" THEN "sendWithSharedRotation" ELSE "sendWithRotation"

\* an awaited call of the persistence layer rejected and nothing on the way caught it
Rejected == "rejected"

\* const s = getSession(inst.instance_id); if (s && s.status === 'connected')
Connected(o, i) == sessions[i] # 0 /\ o[sessions[i]].status = "connected"

\* let currentIndex = (startIndex + attempts) % total, as a position 1..total
CurrentIndex(start, attempts, total) == ((start + attempts) % total) + 1

\* the while loop up to its next await: the first attempt number >= a whose candidate
\* is connected in the registry, or total when the loop runs out
RECURSIVE NextAttempt(_, _, _, _)
NextAttempt(o, list, start, a) ==
    IF a >= Len(list) THEN Len(list)
    ELSE IF Connected(o, list[CurrentIndex(start, a, Len(list))].instance_id) THEN a
    ELSE NextAttempt(o, list, start, a + 1)

\* the index the loop of request rq adds its attempts to: startIndex, read once
\* (personal), or sharedRoundRobinIndex, read at every iteration (shared)
LoopStart(rq) == IF rq.scope = "shared" THEN sharedRoundRobinIndex ELSE rq.startIndex

DispatchFailed(scope) ==
    IF scope = "shared" THEN "All shared instances failed during dispatch"
    ELSE "All personal instances failed during dispatch"

NoCandidates(scope) ==
    IF scope = "shared" THEN "No shared instances available"
    ELSE "All personal instances at limit/banned/disconnected"

\* the loop runs from attempt a of request rq (a record) to its next await or return,
\* over the session objects o
RunLoop(r, rq, a, o) ==
    LET total == Len(rq.instances)
        n == NextAttempt(o, rq.instances, LoopStart(rq), a)
        idx == CurrentIndex(LoopStart(rq), n, total)
    IN IF n >= total
       THEN /\ reqs' = [reqs EXCEPT ![r] = NoReq]
            /\ ret' = Ret(OpName(rq.scope), "-", 0, FALSE, DispatchFailed(rq.scope))
       ELSE /\ reqs' = [reqs EXCEPT ![r] =
                           [rq EXCEPT !.pc = "sending", !.attempts = n, !.cur = idx,
                                      !.sobj = sessions[rq.instances[idx].instance_id],
                                      !.tried = Append(@, idx)]]
            /\ ret' = NoRet

\* as Query, with the normalized counters of the listed rows written back to the table
QueryWritesBack(r, scope, u) ==
    /\ Listening
    /\ reqs[r].pc = "idle"
    /\ \E list \in IF scope = "shared" THEN getAvailableSharedInstances
                   ELSE getAvailableInstances(u) :
        /\ IF list = <<>>
           THEN /\ ret' = Ret(OpName(scope), "-", 0, FALSE, NoCandidates(scope))
                /\ reqs' = reqs
           ELSE /\ ret' = NoRet
                /\ reqs' = [reqs EXCEPT ![r] =
                               [NoReq EXCEPT !.pc = "queried", !.scope = scope, !.user = u,
                                             !.instances = list]]
        /\ db' = [i \in Ids |->
                     IF \E x \in DOMAIN list : list[x].instance_id = i
                     THEN [db[i] EXCEPT !.messages_sent_today = EffectiveCount(db[i], today)]
                     ELSE db[i]]
    /\ UNCHANGED <<objs, sessions, timers, personalRoundRobinIndex,
                   sharedRoundRobinIndex, restoreQ, restoreWait, now, today>>

\* sendWithRotation(userId, ...) / sendWithSharedRotation(...) is called and the
\* SELECT of the candidate list answers
Query(r, scope, u) ==
    /\ Listening
    /\ reqs[r].pc = "idle"
    /\ \E list \in IF scope = "shared" THEN getAvailableSharedInstances
                   ELSE getAvailableInstances(u) :
        IF list = <<>>
        THEN /\ ret' = Ret(OpName(scope), "-", 0, FALSE, NoCandidates(scope))
             /\ reqs' = reqs
        ELSE /\ ret' = NoRet
             /\ reqs' = [reqs EXCEPT ![r] =
                            [NoReq EXCEPT !.pc = "queried", !.scope = scope, !.user = u,
                                          !.instances = list]]
    /\ UNCHANGED <<db, objs, sessions, timers, personalRoundRobinIndex,
                   sharedRoundRobinIndex, restoreQ, restoreWait, now, today>>

\* lines 349-362 / 392-401: the cursor is read and the loop runs to its first await
Enter(r) ==
    LET rq == reqs[r]
        u == rq.user
        idx0 == IF rq.scope = "shared" THEN personalRoundRobinIndex
                ELSE IF personalRoundRobinIndex[u] = NoCursor
                     THEN [personalRoundRobinIndex EXCEPT ![u] = 0]
                     ELSE personalRoundRobinIndex
    IN
    /\ rq.pc = "queried"
    /\ personalRoundRobinIndex' = idx0
    /\ RunLoop(r, [rq EXCEPT !.startIndex = IF rq.scope = "shared" THEN 0 ELSE idx0[u]], 0,
               objs)
    /\ UNCHANGED <<db, objs, sessions, timers, sharedRoundRobinIndex, restoreQ,
                   restoreWait, now, today>>

\* socket.sendMessage resolved: sendMsg returns { success: true }
SendOk(r) ==
    /\ reqs[r].pc = "sending"
    /\ objs[reqs[r].sobj].socket = "online"
    /\ reqs' = [reqs EXCEPT ![r].pc = "incr", ![r].sobj = 0]
    /\ objs' = Gc(objs, sessions, reqs', restoreWait)
    /\ ret' = NoRet
    /\ UNCHANGED <<db, sessions, timers, personalRoundRobinIndex, sharedRoundRobinIndex,
                   restoreQ, restoreWait, now, today>>

\* as SendFail, with the cursor moved past the candidate that failed
SendFailMovesCursor(r, banned) ==
    LET rq == reqs[r]
        i == rq.instances[rq.cur].instance_id
        o1 == IF banned THEN [objs EXCEPT ![rq.sobj].status = "banned"] ELSE objs
        rq1 == [rq EXCEPT !.sobj = 0]
    IN
    /\ rq.pc = "sending"
    /\ db' = IF banned THEN markBanned(db, i) ELSE db
    /\ RunLoop(r, rq1, rq.attempts + 1, o1)
    /\ objs' = Gc(o1, sessions, reqs', restoreWait)
    /\ sharedRoundRobinIndex' = rq.cur % Len(rq.instances)
    /\ UNCHANGED <<sessions, timers, personalRoundRobinIndex,
                   restoreQ, restoreWait, now, today>>

\* socket.sendMessage threw; banned: the message includes 'banned' or 'blocked'
\* (markBanned, session.status = 'banned'); then attempts++ and the loop goes on
SendFail(r, banned) ==
    LET rq == reqs[r]
        i == rq.instances[rq.cur].instance_id
        o1 == IF banned THEN [objs EXCEPT ![rq.sobj].status = "banned"] ELSE objs
        rq1 == [rq EXCEPT !.sobj = 0]
    IN
    /\ rq.pc = "sending"
    /\ db' = IF banned THEN markBanned(db, i) ELSE db
    /\ RunLoop(r, rq1, rq.attempts + 1, o1)
    /\ objs' = Gc(o1, sessions, reqs', restoreWait)
    /\ UNCHANGED <<sessions, timers, personalRoundRobinIndex, sharedRoundRobinIndex,
                   restoreQ, restoreWait, now, today>>

\* the cursor after a success at position idx (1..total) of a list of total
AdvanceCursor(idx, total) == idx % total

\* await incrementMessageCount(inst.instance_id); the cursor moves; the result is returned
Increment(r) ==
    LET rq == reqs[r]
        inst == rq.instances[rq.cur]
        total == Len(rq.instances)
    IN
    /\ rq.pc = "incr"
    /\ incrementMessageCount(db, inst.instance_id, today)[inst.instance_id].messages_sent_today
           <= MaxSent
    /\ db' = incrementMessageCount(db, inst.instance_id, today)
    /\ IF rq.scope = "shared"
       THEN /\ sharedRoundRobinIndex' = AdvanceCursor(rq.cur, total)
            /\ personalRoundRobinIndex' = personalRoundRobinIndex
            /\ ret' = Ret(OpName(rq.scope), inst.instance_id, 0, TRUE, "-")
       ELSE /\ personalRoundRobinIndex' =
                   [personalRoundRobinIndex EXCEPT ![rq.user] = AdvanceCursor(rq.cur, total)]
            /\ sharedRoundRobinIndex' = sharedRoundRobinIndex
            /\ ret' = [Ret(OpName(rq.scope), inst.instance_id, inst.messages_sent_today + 1,
                           TRUE, "-") EXCEPT !.rotated = total > 1]
    /\ reqs' = [reqs EXCEPT ![r] = NoReq]
    /\ UNCHANGED <<objs, sessions, timers, restoreQ, restoreWait, now, today>>


(***************************************************************************)
(* The rotation calls when an awaited persistence call rejects: neither    *)
(* sendWithRotation nor sendWithSharedRotation has a try block.            *)
(***************************************************************************)
\* await getAvailableInstances(userId) / getAvailableSharedInstances() rejects
QueryThrows(r, scope, u) ==
    /\ Listening
    /\ reqs[r].pc = "idle"
    /\ ret' = Ret(OpName(scope), "-", 0, FALSE, Rejected)
    /\ UNCHANGED <<db, objs, sessions, timers, personalRoundRobinIndex,
                   sharedRoundRobinIndex, reqs, restoreQ, restoreWait, now, today>>

\* socket.sendMessage threw a 'banned' / 'blocked' error and await markBanned, inside
\* the catch of sendMsg, rejects: session.status is not written, sendMsg rejects
SendFailThrows(r) ==
    /\ reqs[r].pc = "sending"
    /\ reqs' = [reqs EXCEPT ![r] = NoReq]
    /\ objs' = Gc(objs, sessions, reqs', restoreWait)
    /\ ret' = Ret(OpName(reqs[r].scope), "-", 0, FALSE, Rejected)
    /\ UNCHANGED <<db, sessions, timers, personalRoundRobinIndex, sharedRoundRobinIndex,
                   restoreQ, restoreWait, now, today>>

\* the message was sent and await incrementMessageCount rejects: the cursor stays
IncrementThrows(r) ==
    /\ reqs[r].pc = "incr"
    /\ reqs' = [reqs EXCEPT ![r] = NoReq]
    /\ ret' = Ret(OpName(reqs[r].scope), "-", 0, FALSE, Rejected)
    /\ UNCHANGED <<db, objs, sessions, timers, personalRoundRobinIndex,
                   sharedRoundRobinIndex, restoreQ, restoreWait, now, today>>

(***************************************************************************)
(* Process start: main(), lines 590-623.                                   *)
(***************************************************************************)
\* as RestoreRows, without the condition on the status
RestoreRowsAnyStatus == {i \in Ids : ~db[i].is_banned /\ db[i].auth_creds # NullBlob}

\* WHERE status IN ('connected', 'reconnecting') AND is_banned = 0 AND auth_creds IS NOT NULL
RestoreRows ==
    {i \in Ids : db[i].status \in {"connected", "reconnecting"} /\ ~db[i].is_banned
                 /\ db[i].auth_creds # NullBlob}

\* the process dies and is started again: the memory is empty, main() selects the rows
Restart ==
    /\ objs' = [k \in Slots |-> FreeObj]
    /\ sessions' = [i \in Ids |-> 0]
    /\ timers' = [i \in Ids |-> 0]
    /\ personalRoundRobinIndex' = [u \in Users |-> NoCursor]
    /\ sharedRoundRobinIndex' = 0
    /\ reqs' = [r \in Reqs |-> NoReq]
    /\ restoreQ' = RestoreRows
    /\ restoreWait' = 0
    /\ ret' = NoRet
    /\ UNCHANGED <<db, now, today>>

\* for (const row of rows) { await startSession(row.instance_id); await 2 s }
RestoreNext(i) ==
    /\ i \in restoreQ
    /\ restoreWait = 0
    /\ restoreQ' = restoreQ \ {i}
    /\ StartSessionPrefix(i, timers, TRUE)
    /\ UNCHANGED <<db, personalRoundRobinIndex, sharedRoundRobinIndex, reqs, now, today>>

\* await new Promise(r => setTimeout(r, 2000)) is over
RestoreDelay ==
    /\ restoreWait = Sleeping
    /\ restoreWait' = 0
    /\ UNCHANGED <<db, objs, sessions, timers, personalRoundRobinIndex,
                   sharedRoundRobinIndex, reqs, restoreQ, ret, now, today>>

(***************************************************************************)
(* The gateway from a freshly registered table.                            *)
(***************************************************************************)
InitMemory ==
    /\ personalRoundRobinIndex = [u \in Users |-> NoCursor]
    /\ sharedRoundRobinIndex = 0
    /\ restoreQ = {}
    /\ restoreWait = 0
    /\ ret = NoRet
    /\ now = 0
    /\ today = 1

Init ==
    /\ db = [i \in {"a"} |-> NewRow]
    /\ objs = [k \in 1..MaxObj |-> FreeObj]
    /\ sessions = [i \in {"a"} |-> 0]
    /\ timers = [i \in {"a"} |-> 0]
    /\ reqs = [r \in {1} |-> NoReq]
    /\ InitMemory

Next ==
    \/ \E i \in Ids : StartSession(i)
    \/ \E i \in Ids : TimerFire(i)
    \/ \E i \in Ids : DisconnectSession(i)
    \/ \E i \in Ids : RestoreNext(i)
    \/ RestoreDelay
    \/ \E k \in Slots : StartSessionOpen(k)
    \/ \E k \in Slots, dbOk \in BOOLEAN : StartSessionFail(k, dbOk)
    \/ \E k \in Slots : CredsUpdate(k)
    \/ \E k \in Slots, q \in QrPayloads : OnQr(k, q)
    \/ \E k \in Slots, dbOk \in BOOLEAN : OnOpen(k, dbOk)
    \/ \E k \in Slots, code \in CloseCodes, dbOk \in BOOLEAN : OnClose(k, code, dbOk)
    \/ \E r \in Reqs : Query(r, "shared", 0)
    \/ \E r \in Reqs, u \in Users : Query(r, "personal", u)
    \/ \E r \in Reqs : Enter(r)
    \/ \E r \in Reqs : SendOk(r)
    \/ \E r \in Reqs, banned \in BOOLEAN : SendFail(r, banned)
    \/ \E r \in Reqs : Increment(r)
    \/ Tick
    \/ Restart

Spec == Init /\ [][Next]_vars

(***************************************************************************)
(* The rotation engine over a pool of two connected instances a and b of   *)
(* user 1, both shared, one request at a time; sessions are lost to bans,  *)
(* closes and disconnects, the calendar day advances, and the awaited      *)
(* persistence calls of a request may reject.                              *)
(***************************************************************************)
\* the credential of an instance that was paired
PairedCreds == [noiseKey |-> Buffer(<<255, 0, 255>>), registered |-> TRUE]

ConnectedRow ==
    [status |-> "connected", is_banned |-> FALSE, messages_sent_today |-> 0,
     last_reset_date |-> NullDate, auth_creds |-> stringifyCreds(PairedCreds),
     auth_keys |-> NullBlob]

ConnectedSession(i) ==
    [id |-> i, socket |-> "online", qr |-> NoQr, status |-> "connected",
     createdAt |-> 0, starting |-> FALSE, creds |-> PairedCreds, storedKeys |-> EmptyKeys]

SlotOf(i) == CASE i = "a" -> 1 [] i = "b" -> 2 [] i = "c" -> 3

InitPool(S, R) ==
    /\ db = [i \in S |-> ConnectedRow]
    /\ objs = [k \in {SlotOf(i) : i \in S} |->
                  ConnectedSession(CHOOSE i \in S : SlotOf(i) = k)]
    /\ sessions = [i \in S |-> SlotOf(i)]
    /\ timers = [i \in S |-> 0]
    /\ reqs = [r \in R |-> NoReq]
    /\ InitMemory

InitRot == InitPool({"a", "b"}, {1})

NextRot ==
    \/ \E r \in Reqs : Query(r, "shared", 0)
    \/ \E r \in Reqs, u \in Users : Query(r, "personal", u)
    \/ \E r \in Reqs : Enter(r)
    \/ \E r \in Reqs : SendOk(r)
    \/ \E r \in Reqs, banned \in BOOLEAN : SendFail(r, banned)
    \/ \E r \in Reqs : Increment(r)
    \/ \E k \in Slots, code \in CloseCodes : OnClose(k, code, TRUE)
    \/ \E i \in Ids : DisconnectSession(i)
    \/ NextDay
    \/ \E r \in Reqs : QueryThrows(r, "shared", 0)
    \/ \E r \in Reqs, u \in Users : QueryThrows(r, "personal", u)
    \/ \E r \in Reqs : SendFailThrows(r)
    \/ \E r \in Reqs : IncrementThrows(r)

SpecRot == InitRot /\ [][NextRot]_vars


(***************************************************************************)
(* Consecutive successful shared sends over a pool of two or three         *)
(* connected instances, one request at a time, nothing else happening.     *)
(***************************************************************************)
InitRR == \E S \in {{"a", "b"}, {"a", "b", "c"}} : InitPool(S, {1})

NextRR ==
    \/ \E r \in Reqs : Query(r, "shared", 0)
    \/ \E r \in Reqs : Enter(r)
    \/ \E r \in Reqs : SendOk(r)
    \/ \E r \in Reqs : Increment(r)

SpecRR == InitRR /\ [][NextRR]_vars


(***************************************************************************)
(* Two rotation requests in flight at the same time over the two connected *)
(* instances: their awaits interleave; sends succeed or fail; the calendar  *)
(* day advances.                                                           *)
(***************************************************************************)
InitCo == InitPool({"a", "b"}, {1, 2})

NextCo ==
    \/ \E r \in Reqs : Query(r, "shared", 0)
    \/ \E r \in Reqs : Query(r, "personal", 1)
    \/ \E r \in Reqs : Enter(r)
    \/ \E r \in Reqs : SendOk(r)
    \/ \E r \in Reqs, banned \in BOOLEAN : SendFail(r, banned)
    \/ \E r \in Reqs : Increment(r)
    \/ NextDay

SpecCo == InitCo /\ [][NextCo]_vars


(***************************************************************************)
(* POST /send with instance_id and without user_id, lines 502-506: the     *)
(* direct send path.  A request r is at "dsending" (inside sendMsg,         *)
(* awaiting socket.sendMessage) or at "dincr" (awaiting                     *)
(* incrementMessageCount).                                                  *)
(***************************************************************************)
\* the route calls sendMsg(instance_id, ...): the test of line 297, then the await
DirectSend(r, i) ==
    /\ Listening
    /\ reqs[r].pc = "idle"
    /\ IF Connected(objs, i)
       THEN /\ reqs' = [reqs EXCEPT ![r] =
                           [NoReq EXCEPT !.pc = "dsending", !.scope = "direct",
                                         !.instances = <<[instance_id |-> i,
                                                          messages_sent_today |-> 0]>>,
                                         !.cur = 1, !.sobj = sessions[i], !.tried = <<1>>]]
            /\ ret' = NoRet
       ELSE /\ reqs' = reqs
            /\ ret' = Ret("sendMsg", i, 0, FALSE, "Not connected")
    /\ UNCHANGED <<db, objs, sessions, timers, personalRoundRobinIndex,
                   sharedRoundRobinIndex, restoreQ, restoreWait, now, today>>

\* socket.sendMessage resolved: sendMsg returns { success: true } to the route
DirectSendOk(r) ==
    /\ reqs[r].pc = "dsending"
    /\ objs[reqs[r].sobj].socket = "online"
    /\ reqs' = [reqs EXCEPT ![r].pc = "dincr", ![r].sobj = 0]
    /\ objs' = Gc(objs, sessions, reqs', restoreWait)
    /\ ret' = NoRet
    /\ UNCHANGED <<db, sessions, timers, personalRoundRobinIndex, sharedRoundRobinIndex,
                   restoreQ, restoreWait, now, today>>

\* as DirectSendFail, with the usage counter incremented for the failed send
DirectSendFailCounts(r, banned) ==
    LET rq == reqs[r]
        i == rq.instances[rq.cur].instance_id
        o1 == IF banned THEN [objs EXCEPT ![rq.sobj].status = "banned"] ELSE objs
    IN
    /\ rq.pc = "dsending"
    /\ incrementMessageCount(db, i, today)[i].messages_sent_today <= MaxSent
    /\ db' = incrementMessageCount(IF banned THEN markBanned(db, i) ELSE db, i, today)
    /\ reqs' = [reqs EXCEPT ![r] = NoReq]
    /\ objs' = Gc(o1, sessions, reqs', restoreWait)
    /\ ret' = Ret("sendMsg", i, 0, FALSE, IF banned THEN "Banned" ELSE "error")
    /\ UNCHANGED <<sessions, timers, personalRoundRobinIndex, sharedRoundRobinIndex,
                   restoreQ, restoreWait, now, today>>

\* socket.sendMessage threw; banned: the message includes 'banned' or 'blocked'
\* (markBanned, session.status = 'banned'); the route answers with the failed result
DirectSendFail(r, banned) ==
    LET rq == reqs[r]
        i == rq.instances[rq.cur].instance_id
        o1 == IF banned THEN [objs EXCEPT ![rq.sobj].status = "banned"] ELSE objs
    IN
    /\ rq.pc = "dsending"
    /\ db' = IF banned THEN markBanned(db, i) ELSE db
    /\ reqs' = [reqs EXCEPT ![r] = NoReq]
    /\ objs' = Gc(o1, sessions, reqs', restoreWait)
    /\ ret' = Ret("sendMsg", i, 0, FALSE, IF banned THEN "Banned" ELSE "error")
    /\ UNCHANGED <<sessions, timers, personalRoundRobinIndex, sharedRoundRobinIndex,
                   restoreQ, restoreWait, now, today>>

\* if (result.success) await incrementMessageCount(instance_id); res.json(result)
DirectIncrement(r) ==
    LET i == reqs[r].instances[reqs[r].cur].instance_id IN
    /\ reqs[r].pc = "dincr"
    /\ incrementMessageCount(db, i, today)[i].messages_sent_today <= MaxSent
    /\ db' = incrementMessageCount(db, i, today)
    /\ reqs' = [reqs EXCEPT ![r] = NoReq]
    /\ ret' = Ret("sendMsg", i, 0, TRUE, "-")
    /\ UNCHANGED <<objs, sessions, timers, personalRoundRobinIndex, sharedRoundRobinIndex,
                   restoreQ, restoreWait, now, today>>

(***************************************************************************)
(* The three send paths over the two connected instances a and b, one      *)
(* request at a time: sends succeed or fail, the calendar day advances.    *)
(***************************************************************************)
InitDirect == InitPool({"a", "b"}, {1})

NextDirect ==
    \/ \E r \in Reqs, i \in Ids : DirectSend(r, i)
    \/ \E r \in Reqs : DirectSendOk(r)
    \/ \E r \in Reqs, banned \in BOOLEAN : DirectSendFail(r, banned)
    \/ \E r \in Reqs : DirectIncrement(r)
    \/ \E r \in Reqs : Query(r, "shared", 0)
    \/ \E r \in Reqs : Query(r, "personal", 1)
    \/ \E r \in Reqs : Enter(r)
    \/ \E r \in Reqs : SendOk(r)
    \/ \E r \in Reqs, banned \in BOOLEAN : SendFail(r, banned)
    \/ \E r \in Reqs : Increment(r)
    \/ NextDay

SpecDirect == InitDirect /\ [][NextDirect]_vars

(***************************************************************************)
(* One connected instance a that is banned or closed by the network and    *)
(* started again by a caller, while direct and shared sends are requested. *)
(***************************************************************************)
InitBan ==
    /\ db = [i \in {"a"} |-> ConnectedRow]
    /\ objs = [k \in 1..MaxObj |-> IF k = 1 THEN ConnectedSession("a") ELSE FreeObj]
    /\ sessions = [i \in {"a"} |-> 1]
    /\ timers = [i \in {"a"} |-> 0]
    /\ reqs = [r \in {1} |-> NoReq]
    /\ InitMemory

NextBan ==
    \/ \E r \in Reqs, i \in Ids : DirectSend(r, i)
    \/ \E r \in Reqs : DirectSendOk(r)
    \/ \E r \in Reqs, banned \in BOOLEAN : DirectSendFail(r, banned)
    \/ \E r \in Reqs : DirectIncrement(r)
    \/ \E r \in Reqs : Query(r, "shared", 0)
    \/ \E r \in Reqs : Enter(r)
    \/ \E r \in Reqs : SendOk(r)
    \/ \E r \in Reqs, banned \in BOOLEAN : SendFail(r, banned)
    \/ \E r \in Reqs : Increment(r)
    \/ \E i \in Ids : StartSession(i)
    \/ \E k \in Slots : StartSessionOpen(k)
    \/ \E k \in Slots : OnOpen(k, TRUE)
    \/ \E k \in Slots, code \in CloseCodes : OnClose(k, code, TRUE)
    \/ \E i \in Ids : TimerFire(i)

SpecBan == InitBan /\ [][NextBan]_vars


(***************************************************************************)
(* Process restarts over two instances a and b that were connected: main() *)
(* restores the selected rows one after the other while the sockets of the *)
(* restored sessions open, close and reconnect.                            *)
(***************************************************************************)
InitRestore == InitPool({"a", "b"}, {1})

NextRestore ==
    \/ Restart
    \/ \E i \in Ids : RestoreNext(i)
    \/ RestoreDelay
    \/ \E i \in Ids : StartSession(i)
    \/ \E i \in Ids : TimerFire(i)
    \/ \E i \in Ids : DisconnectSession(i)
    \/ \E k \in Slots : StartSessionOpen(k)
    \/ \E k \in Slots, dbOk \in BOOLEAN : StartSessionFail(k, dbOk)
    \/ \E k \in Slots, dbOk \in BOOLEAN : OnOpen(k, dbOk)
    \/ \E k \in Slots, code \in CloseCodes, dbOk \in BOOLEAN : OnClose(k, code, dbOk)

SpecRestore == InitRestore /\ [][NextRestore]_vars

(***************************************************************************)
(* The credential store of one instance a whose columns auth_creds and     *)
(* auth_keys are NULL or unreadable at first: sessions are started, the    *)
(* socket changes the credential and the key records, the process restarts *)
(* and the auth state is loaded again.                                     *)
(***************************************************************************)
InitAuth ==
    /\ \E c \in {NullBlob, Garbage}, m \in {NullBlob, Garbage} :
          db = [i \in {"a"} |-> [NewRow EXCEPT !.auth_creds = c, !.auth_keys = m]]
    /\ objs = [k \in 1..MaxObj |-> FreeObj]
    /\ sessions = [i \in {"a"} |-> 0]
    /\ timers = [i \in {"a"} |-> 0]
    /\ reqs = [r \in {1} |-> NoReq]
    /\ InitMemory

NextAuth ==
    \/ \E i \in Ids : StartSession(i)
    \/ \E k \in Slots : StartSessionOpen(k)
    \/ \E k \in Slots : OnOpen(k, TRUE)
    \/ \E k \in Slots : CredsUpdate(k)
    \/ \E k \in Slots, c \in CredsSet : CredsChanged(k, c)
    \/ \E k \in Slots, data \in Deltas : KeysSet(k, data)
    \/ Restart
    \/ \E i \in Ids : RestoreNext(i)
    \/ RestoreDelay

SpecAuth == InitAuth /\ [][NextAuth]_vars

(***************************************************************************)
(* The claims.                                                             *)
(***************************************************************************)
\* a step of the model in which startSession(i) is called
Calls(i) == StartSession(i) \/ TimerFire(i) \/ RestoreNext(i)

LiveHandles(i) == {k \in Slots : objs[k].id = i /\ Live(objs[k])}

\* C1: in every reachable state every instance id has at most one live handle (a socket
\* that was opened and not terminated): a new session is only registered once the
\* prior session's handle is terminated, whatever the prior session's status.
C1_OneLiveHandle == \A i \in Ids : Cardinality(LiveHandles(i)) <= 1

\* the session registered for i is healthy: connected, or connecting / qr_ready and
\* younger than the staleness threshold
Healthy(i) ==
    /\ sessions[i] # 0
    /\ \/ objs[sessions[i]].status = "connected"
       \/ /\ objs[sessions[i]].status \in {"connecting", "qr_ready"}
          /\ now - objs[sessions[i]].createdAt < StaleMs

\* C2: a call of startSession(i) on a healthy session returns that same session and
\* changes neither the registry, nor any session object or handle, nor the rows.
C2_StartIdempotent ==
    [][\A i \in Ids :
          (Healthy(i) /\ Calls(i)) =>
              /\ ret' = Ret("startSession", i, sessions[i], TRUE, "-")
              /\ UNCHANGED <<db, objs, sessions>>]_vars

\* a call of startSession returned the registered connected session
C2_Witness ==
    /\ ret.op = "startSession" /\ ret.val # 0
    /\ sessions[ret.id] = ret.val
    /\ objs[ret.val].status = "connected"

\* the session registered for i is stuck: connecting / qr_ready at or past the threshold
Stuck(i) ==
    /\ sessions[i] # 0
    /\ objs[sessions[i]].status \in {"connecting", "qr_ready"}
    /\ now - objs[sessions[i]].createdAt >= StaleMs

\* C3: a call of startSession(i) on a stuck session terminates the old handle, removes
\* the old session and registers a fresh one: status connecting, created now, no
\* socket yet.
C3_StaleRestart ==
    [][\A i \in Ids :
          (Stuck(i) /\ Calls(i)) =>
              /\ sessions'[i] # 0 /\ sessions'[i] # sessions[i]
              /\ objs'[sessions'[i]] = NewSession(i, now)
              /\ ~Live(objs'[sessions[i]])
              /\ LiveHandles(i)' = LiveHandles(i) \ {sessions[i]}]_vars

\* a stuck session was restarted: the fresh session is registered, created now
C3_Witness ==
    /\ ret.why = "stuck, restarting"
    /\ sessions[ret.id] # 0
    /\ objs[sessions[ret.id]].status = "connecting"
    /\ objs[sessions[ret.id]].createdAt = now
    /\ now >= StaleMs

\* C4: the ban flag is monotonic: no step clears the flag of a row.
C4_BanMonotonic == [][\A i \in Ids : db[i].is_banned => db'[i].is_banned]_vars

\* a banned row whose status was written again later kept its flag
C4_Witness == \E i \in Ids : db[i].is_banned /\ db[i].status = "connected"

\* C5: in every reachable state a row whose ban flag is set has status banned.
C5_BannedStatus == \A i \in Ids : db[i].is_banned => db[i].status = "banned"

\* every candidate list that can be built in the current state
Lists == getAvailableSharedInstances \cup UNION {getAvailableInstances(u) : u \in Users}

\* the instances on some candidate list that can be built in the current state
Listed == UNION {{list[x].instance_id : x \in DOMAIN list} : list \in Lists}

\* C6: a row whose ban flag is set is on no candidate list of getAvailableInstances or
\* getAvailableSharedInstances, is not selected by the restore query and is not among
\* the rows main() is restoring, in every state, those after a process restart included.
C6_BannedExcluded ==
    \A i \in Ids :
        db[i].is_banned => i \notin Listed /\ i \notin RestoreRows /\ i \notin restoreQ

\* after a restart (empty memory) a banned row still says connected and has credentials
C6_Witness ==
    \E i \in Ids :
        /\ db[i].is_banned /\ db[i].status = "connected" /\ db[i].auth_creds # NullBlob
        /\ \A k \in Slots : objs[k] = FreeObj
        /\ restoreQ = {}

\* used-today after rollover normalization: 0 when last-reset-date is null or before
\* today, the stored counter when it is today
UsedToday(row) ==
    IF row.last_reset_date = NullDate \/ row.last_reset_date < today
    THEN 0 ELSE row.messages_sent_today

\* C7: every instance on a candidate list has used-today, after rollover normalization,
\* strictly below its daily limit.
C7_ListedUnderLimit ==
    \A list \in Lists : \A x \in DOMAIN list :
        UsedToday(db[list[x].instance_id]) < DailyLimit

\* C8: the used-today of a candidate list entry is 0 when the row's last-reset-date is
\* null or before today, and the row's stored counter when it is today.
C8_RolloverCount ==
    \A list \in Lists : \A x \in DOMAIN list :
        list[x].messages_sent_today = UsedToday(db[list[x].instance_id])

RECURSIVE SentTotal(_)
SentTotal(S) ==
    IF S = {} THEN 0
    ELSE LET i == CHOOSE j \in S : TRUE
         IN db[i].messages_sent_today + SentTotal(S \ {i})

\* C9: over N connected, under-quota shared instances and a cursor starting at 0, the
\* first N successful sends in a row choose every instance exactly once: while no more
\* than N sends were counted, no instance was chosen twice.
C9_EachOnceBeforeRepeat ==
    SentTotal(Ids) <= Cardinality(Ids) => \A i \in Ids : db[i].messages_sent_today <= 1

\* the personal cursor of u, a missing entry read as the 0 it is initialised to
CursorOf(idx, u) == IF idx[u] = NoCursor THEN 0 ELSE idx[u]

\* request r returns a success in scope sc in this step
Succeeds(r, sc) ==
    /\ reqs[r].pc = "incr" /\ reqs[r].scope = sc
    /\ reqs'[r].pc = "idle"
    /\ ret'.ok /\ ret'.op = OpName(sc)

\* C10: the shared cursor changes only in a step in which a shared request returns a
\* success, the cursor of user u only in a step in which a personal request of u does;
\* a request that finds no candidate or whose candidates are all skipped or fail
\* leaves the cursors as they were.
C10_CursorOnlyOnSuccess ==
    [][/\ sharedRoundRobinIndex' # sharedRoundRobinIndex
            => \E r \in Reqs : Succeeds(r, "shared")
       /\ \A u \in Users :
            CursorOf(personalRoundRobinIndex', u) # CursorOf(personalRoundRobinIndex, u)
                => \E r \in Reqs : Succeeds(r, "personal") /\ reqs[r].user = u
       /\ (~ret'.ok /\ ret'.op \in {OpName("shared"), OpName("personal")})
            => /\ sharedRoundRobinIndex' = sharedRoundRobinIndex
               /\ \A u \in Users :
                    CursorOf(personalRoundRobinIndex', u) = CursorOf(personalRoundRobinIndex, u)
      ]_vars

\* a shared request failed at every candidate after an earlier success had moved the cursor
C10_Witness ==
    /\ ret.op = OpName("shared") /\ ~ret.ok /\ ret.why = DispatchFailed("shared")
    /\ sharedRoundRobinIndex = 1

\* C11: within one request every position of the candidate list is tried at most once
\* and at most N times in all, the position being tried is in 1..N, and a cursor set by
\* a success is in 0..N-1 of the list it was computed on.
C11_EachIndexOnce ==
    /\ \A r \in Reqs :
          LET rq == reqs[r] IN
          /\ \A x, y \in DOMAIN rq.tried : x # y => rq.tried[x] # rq.tried[y]
          /\ Len(rq.tried) <= Len(rq.instances)
          /\ rq.pc \in {"sending", "incr"} => rq.cur \in 1..Len(rq.instances)
    /\ sharedRoundRobinIndex \in 0..(Cardinality(Ids) - 1)

\* C12: every list of an owner's candidates, which the failover loop tries from its
\* first entry to its last, is in ascending priority and, among equal priorities, in
\* ascending used-today after rollover normalization.
C12_FailoverOrder ==
    \A u \in Users : \A list \in getAvailableInstances(u) :
        \A x, y \in DOMAIN list :
            x < y =>
                LET i == list[x].instance_id
                    j == list[y].instance_id
                IN \/ priority(i) < priority(j)
                   \/ /\ priority(i) = priority(j)
                      /\ UsedToday(db[i]) <= UsedToday(db[j])

\* C13: a successful owner-scoped send reports rotated = TRUE exactly when the instance
\* that served it is not the first candidate of its list.
C13_RotatedIffNotFirst ==
    [][\A r \in Reqs :
          Succeeds(r, "personal") =>
              (ret'.rotated <=> ret'.id # reqs[r].instances[1].instance_id)]_vars

RotationOps == {OpName("shared"), OpName("personal")}

\* C14: the usage reported by a successful rotation send is the used-today that its
\* increment stored for the winning instance, also with another send in flight.
C14_ReportedUsage ==
    (ret.ok /\ ret.op \in RotationOps) => ret.val = db[ret.id].messages_sent_today

\* request r returns in this step
Returns(r) == reqs[r].pc # "idle" /\ reqs'[r].pc = "idle"

\* C15: a rotation request that fails reports that every candidate failed during
\* dispatch only when it made at least one send attempt; when it made none (empty
\* list, or no listed candidate connected) it reports that nothing was available.
C15_ExhaustionKinds ==
    [][\A r \in Reqs :
          (Returns(r) /\ ~ret'.ok) =>
              (ret'.why = DispatchFailed(reqs[r].scope) <=> reqs[r].tried # <<>>)]_vars

\* C16: a rotation call never raises: whatever the candidate query, the send, the ban
\* persistence and the usage increment do, the call ends by returning a result.
C16_NeverRaises == ret.op \in RotationOps => ret.why # Rejected

\* the instance request r is sending through or counting for
Target(r) == reqs[r].instances[reqs[r].cur].instance_id

C19_BanCloseTerminal ==
    [][\A k \in Slots, code \in BanCodes, dbOk \in BOOLEAN :
          OnClose(k, code, dbOk) =>
              /\ db'[objs[k].id].is_banned /\ db'[objs[k].id].status = "banned"
              /\ sessions'[objs[k].id] = 0
              /\ timers' = timers]_vars

\* C20: a close event with the logout code, its writes succeeding, persists the status
\* disconnected, removes the session of the instance from the registry, schedules no
\* reconnect and leaves the ban flag of the row as it was.
C20_LogoutClose ==
    [][\A k \in Slots :
          OnClose(k, loggedOut, TRUE) =>
              /\ db'[objs[k].id].status = "disconnected"
              /\ db'[objs[k].id].is_banned = db[objs[k].id].is_banned
              /\ sessions'[objs[k].id] = 0
              /\ timers' = timers]_vars

\* a close code that indicates neither a ban nor a logout
OtherCodes == CloseCodes \ (BanCodes \cup {loggedOut})

\* C21: a close event with a code that is neither ban- nor logout-indicating, its
\* write succeeding, persists the status reconnecting, takes the old session out of
\* the registry and schedules one startSession for the instance.
C21_ReconnectClose ==
    [][\A k \in Slots, code \in OtherCodes :
          OnClose(k, code, TRUE) =>
              /\ db'[objs[k].id].status = "reconnecting"
              /\ sessions'[objs[k].id] # k
              /\ timers'[objs[k].id] = timers[objs[k].id] + 1]_vars

StaysRegistered(k) ==
    \E i \in Ids : sessions[i] = k /\ sessions'[i] = k /\ objs[k].id = i /\ objs'[k].id = i

\* the step is the handler of an adapter event of the session object in slot k
EventOf(k) ==
    \/ \E q \in QrPayloads : OnQr(k, q)
    \/ \E dbOk \in BOOLEAN : OnOpen(k, dbOk)
    \/ \E code \in CloseCodes, dbOk \in BOOLEAN : OnClose(k, code, dbOk)

\* C24: the status of a registered session changes only in the handler of an adapter
\* event of that session.
C24_StatusOnlyInHandlers ==
    [][\A k \in Slots :
          (StaysRegistered(k) /\ objs'[k].status # objs[k].status) => EventOf(k)]_vars

\* C25: banned and disconnected are terminal: a registered session that has one of
\* these statuses keeps it as long as it is registered.
C25_TerminalStatuses ==
    [][\A k \in Slots :
          (StaysRegistered(k) /\ objs[k].status \in {"banned", "disconnected"}) =>
              objs'[k].status = objs[k].status]_vars

\* C26: no session held in the registry has the status banned or disconnected.
C26_NoTerminalRegistered ==
    \A i \in Ids :
        sessions[i] # 0 => objs[sessions[i]].status \notin {"banned", "disconnected"}

\* the rows the spec has startup restore start: status connected or reconnecting, not
\* banned, a credential stored
Restorable ==
    {i \in Ids : /\ db[i].status = "connected" \/ db[i].status = "reconnecting"
                 /\ db[i].is_banned = FALSE
                 /\ db[i].auth_creds # NullBlob}

\* C30: at process start the instances to restore are exactly the restorable ones;
\* startSession is called for an instance by the restore loop only while it is one of
\* them and is still to be restored, which it is no longer afterwards; a call is made
\* only when the previous one has returned and the 2 s that follow it are over, and
\* nothing else takes an instance off the loop's list or ends the wait.
C30_RestoreSequential ==
    [][/\ Restart => restoreQ' = Restorable
       /\ \A i \in Ids :
            RestoreNext(i) =>
                /\ i \in Restorable /\ i \in restoreQ
                /\ restoreQ' = restoreQ \ {i}
                /\ restoreWait = 0
                /\ restoreWait' # 0
                /\ sessions'[i] # 0
       /\ restoreQ' # restoreQ => Restart \/ \E i \in Ids : RestoreNext(i)
       /\ (restoreWait \in Slots /\ restoreWait' # restoreWait) =>
              \/ Restart
              \/ /\ restoreWait' = Sleeping
                 /\ ~objs'[restoreWait].starting
                 /\ ret' = Ret("startSession", objs[restoreWait].id, restoreWait, TRUE, "-")
       /\ (restoreWait = Sleeping /\ restoreWait' # restoreWait) =>
              Restart \/ RestoreDelay]_vars

\* both instances were restored, one after the other: each has a session of the new
\* process that is connecting while its row still says connected, and the loop is over
C30_Witness ==
    /\ restoreQ = {} /\ restoreWait = 0
    /\ \A i \in {"a", "b"} : sessions[i] # 0 /\ db[i].status = "connected"
    /\ objs[sessions["a"]].status = "connecting"
    /\ objs[sessions["b"]].status = "connecting"

\* the entry keys.get returns for one (category, id) of the mapping m
Entry(m, p) == keysGet(m, p[1], {p[2]})

KeyMaps ==
    UNION {[N -> KeyVals] : N \in SUBSET {KeyName(p[1], p[2]) : p \in Categories \X KeyIds}}

\* C28: what saveCreds and keys.set write is read back bit-identical: whenever a
\* column changes, loading it returns the record a live socket has in memory, and a
\* starting session is given the credential and the key records whose texts the
\* columns hold.
C28_RoundTrip ==
    [][/\ \A i \in Ids :
            db'[i].auth_creds # db[i].auth_creds =>
                \E k \in Slots : /\ Live(objs'[k]) /\ objs'[k].id = i
                                 /\ loadCreds(db'[i].auth_creds) = objs'[k].creds
       /\ \A i \in Ids :
            db'[i].auth_keys # db[i].auth_keys =>
                \E k \in Slots : /\ Live(objs'[k]) /\ objs'[k].id = i
                                 /\ loadKeys(db'[i].auth_keys) = objs'[k].storedKeys
       /\ \A k \in Slots :
            StartSessionOpen(k) =>
                /\ \A c \in CredsSet \cup {initAuthCreds} :
                      db[objs[k].id].auth_creds = stringifyCreds(c) => objs'[k].creds = c
                /\ \A m \in KeyMaps :
                      db[objs[k].id].auth_keys = stringifyKeys(m) =>
                          objs'[k].storedKeys = m]_vars

\* after a restart main() has restored the instance: the session it started was
\* given the credential and the key records that an earlier process had saved
C28_Witness ==
    \E k \in Slots :
        /\ restoreWait = Sleeping
        /\ ret = Ret("startSession", objs[k].id, k, TRUE, "-")
        /\ objs[k].creds = [noiseKey |-> Buffer(<<0, 255>>), registered |-> TRUE]
        /\ objs[k].storedKeys =
               [n \in {"sender-key-1", "sender-key-memory-1"} |->
                   IF n = "sender-key-1" THEN Buffer(<<255, 0>>) ELSE Buffer(<<>>)]

\* C29: a starting session whose row has no stored credential (NULL, or a text that
\* does not parse) is given the fresh credential of initAuthCreds, which is not the
\* empty record, and an empty key mapping; one whose row has a credential that parses
\* is given that credential.
C29_FreshSeed ==
    [][\A k \in Slots :
          StartSessionOpen(k) =>
              LET blob == db[objs[k].id].auth_creds IN
              /\ blob \in {NullBlob, Garbage} =>
                    /\ objs'[k].creds = initAuthCreds
                    /\ objs'[k].creds # EmptyCreds
                    /\ objs'[k].storedKeys = EmptyKeys
              /\ blob \notin {NullBlob, Garbage} =>
                    /\ stringifyCreds(objs'[k].creds) = blob
                    /\ objs'[k].storedKeys = loadKeys(db[objs[k].id].auth_keys)]_vars

\* the candidates of request rq that follow position rq.cur in the order of its loop
\* and are connected in the registry, over the session objects o
LaterConnected(rq, o) ==
    {a \in (rq.attempts + 1)..(Len(rq.instances) - 1) :
        Connected(o, rq.instances[CurrentIndex(LoopStart(rq), a, Len(rq.instances))].instance_id)}

\* C31: a send attempt that fails for another reason than a ban leaves every row and
\* the status of every registered session as they were; one classified as a ban, its
\* write going through, sets the ban flag of the instance and leaves its usage counter
\* and the other rows as they were.  In both cases the request goes on in the same
\* call: it is at
\* the send of the first later candidate of its list that is connected, and returns
\* the dispatch failure only when there is none.
C31_FailureContinues ==
    [][\A r \in Reqs, banned \in BOOLEAN :
          SendFail(r, banned) =>
              LET rq == reqs[r]
                  i == rq.instances[rq.cur].instance_id
                  o1 == IF banned THEN [objs EXCEPT ![rq.sobj].status = "banned"] ELSE objs
                  later == LaterConnected(rq, o1)
              IN /\ ~banned => db' = db
                 /\ banned => /\ db'[i].is_banned
                              /\ db'[i].messages_sent_today = db[i].messages_sent_today
                              /\ \A j \in Ids \ {i} : db'[j] = db[j]
                 /\ ~banned => \A j \in Ids : sessions[j] # 0 =>
                                   objs'[sessions[j]].status = objs[sessions[j]].status
                 /\ sessions' = sessions
                 /\ IF later = {}
                    THEN /\ reqs'[r] = NoReq
                         /\ ret' = Ret(OpName(rq.scope), "-", 0, FALSE,
                                       DispatchFailed(rq.scope))
                    ELSE LET a == CHOOSE x \in later : \A y \in later : x <= y IN
                         /\ reqs'[r].pc = "sending"
                         /\ reqs'[r].instances = rq.instances
                         /\ reqs'[r].attempts = a
                         /\ reqs'[r].cur = CurrentIndex(LoopStart(rq), a, Len(rq.instances))
                         /\ reqs'[r].cur # rq.cur]_vars

\* C32: the stored counter of an instance whose last reset date is today is at most
\* its daily limit.
C32_QuotaNeverExceeded ==
    \A i \in Ids :
        db[i].last_reset_date = today => db[i].messages_sent_today <= DailyLimit

\* C33: an event of a handle whose session object is no longer the registered one for
\* its id, while another session is registered for that id, leaves that session in the
\* registry, leaves its status and its QR as they are and leaves the persisted status
\* of the instance as it is.
C33_RetiredHandleIsolated ==
    [][\A k \in Slots :
          (EventOf(k) /\ objs[k].id \in Ids /\ sessions[objs[k].id] \notin {0, k}) =>
              LET i == objs[k].id
                  cur == sessions[i]
              IN /\ sessions'[i] = cur
                 /\ objs'[cur].status = objs[cur].status
                 /\ objs'[cur].qr = objs[cur].qr
                 /\ db'[i].status = db[i].status]_vars

\* C34: while no session is registered for an instance and its persisted status is
\* disconnected, as disconnectSession leaves it, a session is registered for it only
\* by a caller's startSession, and the persisted status stays disconnected.
C34_DisconnectedStays ==
    [][\A i \in Ids :
          (sessions[i] = 0 /\ db[i].status = "disconnected") =>
              /\ sessions'[i] # 0 => StartSession(i)
              /\ db'[i].status = "disconnected"]_vars

\* C35: every opened handle that was not terminated belongs to the session registered
\* for its instance.
C35_NoOrphanHandles ==
    \A k \in Slots : Live(objs[k]) => sessions[objs[k].id] = k

\* the instance request rq is sending through, or has sent through
Sent(rq) == rq.instances[rq.cur].instance_id

C38_NoSendWhenBanned ==
    [][\A r \in Reqs :
          (/\ reqs'[r].pc \in {"sending", "dsending"}
           /\ (reqs[r].pc # reqs'[r].pc \/ reqs[r].tried # reqs'[r].tried)) =>
              ~db'[Sent(reqs'[r])].is_banned]_vars

\* (category, id) pairs whose category or id contains the separator
SeparatorPairs ==
    {<<"a-b", "c">>, <<"a", "b-c">>, <<"sender-key", "memory-1">>,
     <<"sender-key-memory", "1">>}

\* C36: whatever single (category, id) pair a live socket writes or tombstones next
\* through keys.set, keys.get returns for every other pair what it returned before,
\* also for pairs whose category or id contains '-'.
C36_NoKeyCollision ==
    \A k \in Slots :
        Live(objs[k]) =>
            \A p, q \in (Categories \X KeyIds) \cup SeparatorPairs :
                p # q =>
                    \A v \in KeyVals \cup {Null} :
                        Entry(keysSet(objs[k].storedKeys, [x \in {p} |-> v]), q) =
                            Entry(objs[k].storedKeys, q)

\* the QR invariant of the registered sessions
QrMatchesStatus ==
    \A i \in Ids :
        sessions[i] # 0 =>
            /\ objs[sessions[i]].status = "connected" => objs[sessions[i]].qr = NoQr
            /\ objs[sessions[i]].status = "qr_ready" => objs[sessions[i]].qr # NoQr

====
